---- MODULE Spec2Model ----
(***************************************************************************)
(* The three RAG front ends of the repository as state machines:           *)
(*   demo   = lightrag-demo.py  (LightRAG, guarded loader, async query)    *)
(*   common = common_rag.py     (Chroma + llama_index, build-or-load)      *)
(*   basic  = lightrag.py       (LightRAG, unguarded loader and query)     *)
(* The knowledge store, the document reader, the query engine and the user *)
(* are the environment: every call into them either returns or raises, and *)
(* a stream either yields its next chunk, ends, or raises.                 *)
(***************************************************************************)
EXTENDS Naturals, Sequences, FiniteSets, Bags, TLC

VARIABLES
    prog,             \* which front end this process runs
    pc,               \* position of the process
    rag,              \* main: rag ("unset", "LightRAG" or "None")
    loopEntered,      \* the process has reached its session loop
    docsDir,          \* DOCS_DIR on disk: whether it exists, and its entries
    store,            \* the persisted knowledge store: the bag of documents it holds
    restarts,         \* process starts after the first one
    populatedAtStart, \* the store held a record when this process started
    remaining,        \* entries of os.listdir not yet visited in this pass
    passStarted,      \* the loading pass of this process has begun
    loaded_count,     \* load_docs_from_folder: loaded_count
    failed_count,     \* load_docs_from_folder: failed_count
    insertCalls,      \* spy: rag.insert / from_documents calls of this process
    inserts,          \* spy: the bag of <<file name, content>> inserted by this process
    insertFailures,   \* spy: names of the files whose rag.insert raised
    decodeFailures,   \* spy: names of the files whose read raised UnicodeDecodeError
    engineCalls,      \* spy: rag.query / query_engine.query calls of the current query
    fallbackCalls,    \* spy: those of them made with streaming disabled
    streamState,      \* the stream of the current query: "none", "open", "ended", "raised"
    delivered,        \* the chunks the current stream has yielded, in order
    sink,             \* what the current query printed to the console, in order
    full_response,    \* stream_response: full_response
    result,           \* what the query function returned ("None" when it returns nothing)
    errorMsgs,        \* error texts printed to the user by the current query
    logged,           \* logger.error records written by the current query
    queryFailed,      \* the current query ended without an answer
    failedBefore,     \* an earlier query of this process ended without an answer
    interrupted,      \* a KeyboardInterrupt was raised in this process
    exitPath          \* why the process ended: "" (running), "quit" (the user left), "init" (the
                      \* store could not be initialised), "interrupt" (KeyboardInterrupt, handled),
                      \* "uncaught" (KeyboardInterrupt, not handled), "fatal" (any other exception
                      \* reached the handler of __main__)

vars == <<prog, pc, rag, loopEntered, docsDir, store, restarts, populatedAtStart, remaining, passStarted,
          loaded_count, failed_count, insertCalls, inserts, insertFailures, decodeFailures,
          engineCalls, fallbackCalls, streamState, delivered, sink, full_response, result,
          errorMsgs, logged, queryFailed, failedBefore, interrupted, exitPath>>

diskVars == <<prog, docsDir>>
mainVars == <<rag, loopEntered>>
passVars == <<remaining, passStarted, loaded_count, failed_count, insertCalls, inserts,
              insertFailures, decodeFailures>>
queryVars == <<engineCalls, fallbackCalls, streamState, delivered, sink, full_response, result, errorMsgs,
               logged, queryFailed, failedBefore>>

----------------------------------------------------------------------------
(* Bounds of the model *)

MaxFiles == 4
MaxChunks == 2
MaxRestarts == 1

----------------------------------------------------------------------------
(* The corpus: file names, bytes, decoding *)

SUPPORTED_FILE_EXTENSIONS == {".txt", ".md", ".doc", ".docx", ".pdf"}

\* str.lower() on the extensions that occur
Lower(s) == CASE s = ".MD" -> ".md"
              [] s = ".TXT" -> ".txt"
              [] OTHER -> s

\* One entry of each kind a directory can hold.  bytes are the raw bytes on
\* disk: "CR" and "LF" the line-ending bytes, "SP" a space, "BAD" a byte that
\* is not valid UTF-8.
CorpusFiles == {
    [name |-> "good",  ext |-> ".txt", isfile |-> TRUE,  bytes |-> <<"a", "b">>],
    [name |-> "notes", ext |-> ".MD",  isfile |-> TRUE,  bytes |-> <<"a", "CR", "LF">>],
    [name |-> "blank", ext |-> ".txt", isfile |-> TRUE,  bytes |-> <<"SP", "LF">>],
    [name |-> "latin", ext |-> ".txt", isfile |-> TRUE,  bytes |-> <<"a", "BAD">>],
    [name |-> "image", ext |-> ".bin", isfile |-> TRUE,  bytes |-> <<"b">>],
    [name |-> "sub",   ext |-> ".txt", isfile |-> FALSE, bytes |-> <<>>] }

Directories ==
    {[exists |-> TRUE, entries |-> d] : d \in {e \in SUBSET CorpusFiles : Cardinality(e) <= MaxFiles}}
        \cup {[exists |-> FALSE, entries |-> {}]}

is_supported_file(f) == Lower(f.ext) \in SUPPORTED_FILE_EXTENSIONS

\* open(..., encoding="utf-8").read() raises UnicodeDecodeError
DecodeFails(bytes) == \E i \in 1..Len(bytes) : bytes[i] = "BAD"

\* text mode with the default newline=None: "\r\n" and "\r" are read as "\n"
RECURSIVE Translate(_)
Translate(bytes) ==
    IF bytes = <<>> THEN <<>>
    ELSE IF Head(bytes) = "CR"
         THEN IF Len(bytes) >= 2 /\ bytes[2] = "LF"
              THEN <<"LF">> \o Translate(Tail(Tail(bytes)))
              ELSE <<"LF">> \o Translate(Tail(bytes))
         ELSE <<Head(bytes)>> \o Translate(Tail(bytes))

ReadText(f) == Translate(f.bytes)

\* not content.strip()
IsBlank(content) == \A i \in 1..Len(content) : content[i] \in {"SP", "LF", "CR", "TAB"}

----------------------------------------------------------------------------
(* What the query engine can return *)

\* the chunks a streamed answer is made of
Chunks == {"The ", "cat "}

\* a complete, non-streamed answer
Answers == {"The cat sat."}

\* print("抱歉，查询失败。请检查您的查询或系统状态。")
SORRY == "Sorry, the query failed."

\* f"Error processing your request: {str(e)}"
ERROR_MSG == "Error processing your request"

RECURSIVE Concat(_)
Concat(chunks) == IF chunks = <<>> THEN "" ELSE Head(chunks) \o Concat(Tail(chunks))

----------------------------------------------------------------------------
(* Process start *)

FreshPass ==
    /\ remaining = {}
    /\ passStarted = FALSE
    /\ loaded_count = 0
    /\ failed_count = 0
    /\ insertCalls = 0
    /\ inserts = EmptyBag
    /\ insertFailures = {}
    /\ decodeFailures = {}

FreshQuery ==
    /\ engineCalls = 0
    /\ fallbackCalls = 0
    /\ streamState = "none"
    /\ delivered = <<>>
    /\ sink = <<>>
    /\ full_response = ""
    /\ result = "None"
    /\ errorMsgs = 0
    /\ logged = 0
    /\ queryFailed = FALSE

ResetPass ==
    /\ remaining' = {}
    /\ passStarted' = FALSE
    /\ loaded_count' = 0
    /\ failed_count' = 0
    /\ insertCalls' = 0
    /\ inserts' = EmptyBag
    /\ insertFailures' = {}
    /\ decodeFailures' = {}

\* A new query starts: the spies of the previous one are cleared.
ResetQuery ==
    /\ engineCalls' = 0
    /\ fallbackCalls' = 0
    /\ streamState' = "none"
    /\ delivered' = <<>>
    /\ sink' = <<>>
    /\ full_response' = ""
    /\ result' = "None"
    /\ errorMsgs' = 0
    /\ logged' = 0
    /\ queryFailed' = FALSE

InitOf(p) ==
    /\ prog = p
    /\ pc = "start"
    /\ rag = "unset"
    /\ loopEntered = FALSE
    /\ docsDir \in Directories
    /\ store = EmptyBag
    /\ restarts = 0
    /\ populatedAtStart = FALSE
    /\ FreshPass
    /\ FreshQuery
    /\ failedBefore = FALSE
    /\ interrupted = FALSE
    /\ exitPath = ""

Ended == pc = "ended"

\* The process is started again against the same store and the same directory.
Restart ==
    /\ Ended
    /\ restarts < MaxRestarts
    /\ restarts' = restarts + 1
    /\ pc' = "start"
    /\ rag' = "unset"
    /\ loopEntered' = FALSE
    /\ populatedAtStart' = (BagCardinality(store) > 0)
    /\ ResetPass
    /\ ResetQuery
    /\ failedBefore' = FALSE
    /\ interrupted' = FALSE
    /\ exitPath' = ""
    /\ UNCHANGED <<diskVars, store>>

End(path) ==
    /\ pc' = "ended"
    /\ exitPath' = path

----------------------------------------------------------------------------
(* lightrag-demo.py: start-up *)

\* main: ensure_directories, then initialize_rag with the full parameter set.
\* A TypeError leads to the retry with the basic parameter set, any other
\* exception to return None.
DemoInitFull ==
    /\ prog = "demo" /\ pc = "start"
    /\ docsDir' = [docsDir EXCEPT !.exists = TRUE]
    /\ \E outcome \in {"ok", "TypeError", "error"} :
         CASE outcome = "ok" -> /\ rag' = "LightRAG"
                                /\ pc' = "init_done"
           [] outcome = "TypeError" -> /\ pc' = "init_basic"
                                       /\ UNCHANGED rag
           [] outcome = "error" -> /\ rag' = "None"
                                   /\ pc' = "init_done"
    /\ UNCHANGED <<prog, loopEntered, store, restarts, populatedAtStart, passVars, queryVars,
                   interrupted, exitPath>>

\* initialize_rag: the retry with the basic parameter set
DemoInitBasic ==
    /\ prog = "demo" /\ pc = "init_basic"
    /\ \E ok \in BOOLEAN : rag' = IF ok THEN "LightRAG" ELSE "None"
    /\ pc' = "init_done"
    /\ UNCHANGED <<diskVars, loopEntered, store, restarts, populatedAtStart, passVars,
                   queryVars, interrupted, exitPath>>

\* main without the test of rag against None
DemoCheckRag_NoNoneCheck ==
    /\ prog = "demo" /\ pc = "init_done"
    /\ pc' = "ingest"
    /\ remaining' = IF docsDir.exists THEN docsDir.entries ELSE {}
    /\ passStarted' = TRUE
    /\ UNCHANGED <<diskVars, mainVars, store, restarts, populatedAtStart, loaded_count,
                   failed_count, insertCalls, inserts, insertFailures, decodeFailures,
                   queryVars, interrupted, exitPath>>

\* main: if rag is None: return.  Otherwise load_docs_from_folder(DOCS_DIR,
\* rag) is entered: the directory exists (ensure_directories made it if it
\* did not) and os.listdir lists it.
DemoCheckRag ==
    /\ prog = "demo" /\ pc = "init_done"
    /\ IF rag = "None"
       THEN /\ End("init")
            /\ UNCHANGED <<remaining, passStarted>>
       ELSE /\ pc' = "ingest"
            /\ remaining' = IF docsDir.exists THEN docsDir.entries ELSE {}
            /\ passStarted' = TRUE
            /\ UNCHANGED exitPath
    /\ UNCHANGED <<diskVars, mainVars, store, restarts, populatedAtStart, loaded_count,
                   failed_count, insertCalls, inserts, insertFailures, decodeFailures,
                   queryVars, interrupted>>

----------------------------------------------------------------------------
(* lightrag-demo.py: load_docs_from_folder *)

\* The branch one iteration of the for loop takes for an entry, before any
\* insert: the isfile / extension test, then the read, then the strip test.
Classify_NoBlankCheck(f) ==
    IF ~f.isfile \/ ~is_supported_file(f) THEN "skip"
    ELSE IF DecodeFails(f.bytes) THEN "decode_error"
    ELSE "insert"

Classify(f) ==
    IF ~f.isfile \/ ~is_supported_file(f) THEN "skip"
    ELSE IF DecodeFails(f.bytes) THEN "decode_error"
    ELSE IF IsBlank(ReadText(f)) THEN "blank"
    ELSE "insert"

\* One iteration of the for loop.  os.listdir returns the entries in an
\* arbitrary order, so the next entry is any entry not visited yet.
DemoLoadFile ==
    /\ prog = "demo" /\ pc = "ingest"
    /\ \E f \in remaining :
         /\ remaining' = remaining \ {f}
         /\ CASE Classify(f) \in {"skip", "blank"} ->
                   UNCHANGED <<store, loaded_count, failed_count, insertCalls, inserts,
                               insertFailures, decodeFailures>>
              [] Classify(f) = "decode_error" ->       \* except UnicodeDecodeError
                   /\ failed_count' = failed_count + 1
                   /\ decodeFailures' = decodeFailures \cup {f.name}
                   /\ UNCHANGED <<store, loaded_count, insertCalls, inserts, insertFailures>>
              [] Classify(f) = "insert" ->             \* rag.insert(content)
                   /\ insertCalls' = insertCalls + 1
                   /\ \E raised \in BOOLEAN :
                        IF raised                       \* except Exception
                        THEN /\ failed_count' = failed_count + 1
                             /\ insertFailures' = insertFailures \cup {f.name}
                             /\ UNCHANGED <<store, loaded_count, inserts>>
                        ELSE /\ store' = store (+) SetToBag({ReadText(f)})
                             /\ inserts' = inserts (+) SetToBag({<<f.name, ReadText(f)>>})
                             /\ loaded_count' = loaded_count + 1
                             /\ UNCHANGED <<failed_count, insertFailures>>
                   /\ UNCHANGED decodeFailures
    /\ UNCHANGED <<diskVars, mainVars, pc, restarts, populatedAtStart, passStarted, queryVars,
                   interrupted, exitPath>>

\* The loop is exhausted: return loaded_count; main prints the welcome
\* message and enters the session loop.
DemoLoadDone ==
    /\ prog = "demo" /\ pc = "ingest"
    /\ remaining = {}
    /\ pc' = "loop"
    /\ loopEntered' = TRUE
    /\ UNCHANGED <<diskVars, rag, store, restarts, populatedAtStart, passVars, queryVars,
                   interrupted, exitPath>>

\* KeyboardInterrupt before the session loop (in initialize_rag or inside
\* load_docs_from_folder): no except Exception clause catches it, main calls
\* the loader outside its try block, and the handler around
\* asyncio.run(main()) catches Exception only.
DemoInterruptStartup ==
    /\ prog = "demo" /\ pc \in {"start", "init_basic", "init_done", "ingest"}
    /\ interrupted' = TRUE
    /\ End("uncaught")
    /\ UNCHANGED <<diskVars, mainVars, store, restarts, populatedAtStart, passVars, queryVars>>

----------------------------------------------------------------------------
(* lightrag-demo.py: the session loop and query_rag_async *)

\* main: input() returns a question; query_rag(query, rag) is entered
DemoAsk ==
    /\ prog = "demo" /\ pc = "loop"
    /\ pc' = "q_call"
    /\ ResetQuery
    /\ failedBefore' = (failedBefore \/ queryFailed)
    /\ UNCHANGED <<diskVars, mainVars, store, restarts, populatedAtStart, passVars, interrupted,
                   exitPath>>

\* main: input() returns exit / quit
DemoQuit ==
    /\ prog = "demo" /\ pc = "loop"
    /\ End("quit")
    /\ UNCHANGED <<diskVars, mainVars, store, restarts, populatedAtStart, passVars, queryVars,
                   interrupted>>

\* KeyboardInterrupt inside the try block of main: at input() or anywhere in
\* a query (no except Exception clause on the way catches it)
DemoInterruptLoop ==
    /\ prog = "demo" /\ pc \in {"loop", "q_call", "q_stream", "q_fallback"}
    /\ interrupted' = TRUE
    /\ End("interrupt")
    /\ UNCHANGED <<diskVars, mainVars, store, restarts, populatedAtStart, passVars, queryVars>>

\* query_rag_async: rag.query(query, QueryParam(mode="global", stream=True))
DemoQueryCall ==
    /\ prog = "demo" /\ pc = "q_call"
    /\ engineCalls' = engineCalls + 1
    /\ \/ /\ pc' = "q_stream"                   \* an async generator comes back
          /\ streamState' = "open"
          /\ UNCHANGED <<sink, logged>>
       \/ \E text \in Answers :                 \* a plain value comes back: print(resp)
            /\ sink' = Append(sink, text)
            /\ pc' = "loop"
            /\ UNCHANGED <<streamState, logged>>
       \/ /\ logged' = logged + 1               \* rag.query raised
          /\ pc' = "q_fallback"
          /\ UNCHANGED <<streamState, sink>>
    /\ UNCHANGED <<diskVars, mainVars, store, restarts, populatedAtStart, passVars, fallbackCalls,
                   delivered, full_response, result, errorMsgs, queryFailed, failedBefore,
                   interrupted, exitPath>>

\* print_stream: the stream yields its next chunk, which is printed
DemoStreamChunk ==
    /\ prog = "demo" /\ pc = "q_stream"
    /\ Len(delivered) < MaxChunks
    /\ \E c \in Chunks :
         /\ delivered' = Append(delivered, c)
         /\ sink' = Append(sink, c)
    /\ UNCHANGED <<diskVars, mainVars, pc, store, restarts, populatedAtStart, passVars, engineCalls,
                   fallbackCalls, streamState, full_response, result, errorMsgs, logged, queryFailed,
                   failedBefore, interrupted, exitPath>>

\* print_stream: the stream is exhausted; print() ends the line; the query
\* returns None
DemoStreamEnd ==
    /\ prog = "demo" /\ pc = "q_stream"
    /\ sink' = Append(sink, "\n")
    /\ streamState' = "ended"
    /\ pc' = "loop"
    /\ UNCHANGED <<diskVars, mainVars, store, restarts, populatedAtStart, passVars, engineCalls,
                   fallbackCalls, delivered, full_response, result, errorMsgs, logged,
                   queryFailed, failedBefore, interrupted, exitPath>>

\* print_stream: the stream raises; the except clause of print_stream logs
\* the error and print_stream returns normally to query_rag_async
DemoStreamRaise ==
    /\ prog = "demo" /\ pc = "q_stream"
    /\ logged' = logged + 1
    /\ streamState' = "raised"
    /\ queryFailed' = TRUE
    /\ pc' = "loop"
    /\ UNCHANGED <<diskVars, mainVars, store, restarts, populatedAtStart, passVars, engineCalls,
                   fallbackCalls, delivered, sink, full_response, result, errorMsgs,
                   failedBefore, interrupted, exitPath>>

\* the except branch retrying itself when the fallback raises
DemoFallbackCall_Retries ==
    /\ prog = "demo" /\ pc = "q_fallback"
    /\ engineCalls' = engineCalls + 1
    /\ fallbackCalls' = fallbackCalls + 1
    /\ \/ \E text \in Answers :
            /\ sink' = Append(sink, text)
            /\ pc' = "loop"
            /\ UNCHANGED <<errorMsgs, logged, queryFailed>>
       \/ /\ logged' = logged + 1
          /\ queryFailed' = TRUE
          /\ UNCHANGED <<pc, sink, errorMsgs>>
    /\ UNCHANGED <<diskVars, mainVars, store, restarts, populatedAtStart, passVars, streamState,
                   delivered, full_response, result, failedBefore, interrupted, exitPath>>

\* query_rag_async, except branch: rag.query(query, QueryParam(mode="global"))
DemoFallbackCall ==
    /\ prog = "demo" /\ pc = "q_fallback"
    /\ engineCalls' = engineCalls + 1
    /\ fallbackCalls' = fallbackCalls + 1
    /\ \/ \E text \in Answers :                 \* print(resp)
            /\ sink' = Append(sink, text)
            /\ UNCHANGED <<errorMsgs, logged, queryFailed>>
       \/ /\ logged' = logged + 1               \* the fallback raised too
          /\ sink' = Append(sink, SORRY)
          /\ errorMsgs' = errorMsgs + 1
          /\ queryFailed' = TRUE
    /\ pc' = "loop"
    /\ UNCHANGED <<diskVars, mainVars, store, restarts, populatedAtStart, passVars, streamState,
                   delivered, full_response, result, failedBefore, interrupted, exitPath>>

----------------------------------------------------------------------------

InitDemo == InitOf("demo")

NextDemo ==
    \/ DemoInitFull
    \/ DemoInitBasic
    \/ DemoCheckRag
    \/ DemoLoadFile
    \/ DemoLoadDone
    \/ DemoInterruptStartup
    \/ DemoAsk
    \/ DemoQuit
    \/ DemoInterruptLoop
    \/ DemoQueryCall
    \/ DemoStreamChunk
    \/ DemoStreamEnd
    \/ DemoStreamRaise
    \/ DemoFallbackCall
    \/ Restart

SpecDemo == InitDemo /\ [][NextDemo]_vars

----------------------------------------------------------------------------
(* common_rag.py *)

\* SimpleDirectoryReader(DOCS_DIR).load_data(): the files the reader can turn
\* into documents
Readable(dir) == {f \in dir.entries : f.isfile /\ ~DecodeFails(f.bytes)}

\* the documents of a set of files, as the store and as the spy record them
RECURSIVE BagOfTexts(_)
BagOfTexts(S) ==
    IF S = {} THEN EmptyBag
    ELSE LET f == CHOOSE x \in S : TRUE
         IN SetToBag({ReadText(f)}) (+) BagOfTexts(S \ {f})

BagOfRecords(S) == SetToBag({<<f.name, ReadText(f)>> : f \in S})

\* __main__ / initialize_or_load_vector_store: open the Chroma collection and
\* test collection.count() == 0
CommonStart ==
    /\ prog = "common" /\ pc = "start"
    /\ \/ /\ BagCardinality(store) = 0           \* empty: build a new index
          /\ pc' = "build"
          /\ passStarted' = TRUE
          /\ UNCHANGED <<exitPath, logged, loopEntered>>
       \/ /\ BagCardinality(store) > 0           \* from_vector_store, create_query_engine
          /\ pc' = "loop"
          /\ loopEntered' = TRUE
          /\ UNCHANGED <<passStarted, exitPath, logged>>
       \/ /\ End("init")                        \* the store cannot be opened
          /\ logged' = logged + 1
          /\ UNCHANGED <<passStarted, loopEntered>>
    /\ UNCHANGED <<diskVars, rag, store, restarts, populatedAtStart, remaining, loaded_count,
                   failed_count, insertCalls, inserts, insertFailures, decodeFailures,
                   engineCalls, fallbackCalls, streamState, delivered, sink, full_response, result,
                   errorMsgs, queryFailed, failedBefore, interrupted>>

\* initialize_or_load_vector_store, empty branch: load_data, then
\* VectorStoreIndex.from_documents on everything that was loaded.  Nothing
\* guards either call: an exception leaves through the handler of __main__.
\* The reader is an external library and may raise on any directory (the
\* llama_index reader raises ValueError for a missing or an empty one).
\* A from_documents that raises may have stored a part of the batch.
CommonBuild ==
    /\ prog = "common" /\ pc = "build"
    /\ \/ /\ End("fatal")                       \* load_data raised
          /\ logged' = logged + 1
          /\ UNCHANGED <<store, insertCalls, inserts, loaded_count, loopEntered>>
       \/ /\ insertCalls' = insertCalls + 1   \* load_data returned; from_documents
          /\ \/ /\ store' = store (+) BagOfTexts(Readable(docsDir))
                /\ inserts' = inserts (+) BagOfRecords(Readable(docsDir))
                /\ loaded_count' = Cardinality(Readable(docsDir))
                /\ pc' = "loop"
                /\ loopEntered' = TRUE
                /\ UNCHANGED <<exitPath, logged>>
             \/ \E done \in SUBSET Readable(docsDir) :   \* from_documents raised
                  /\ done # Readable(docsDir)
                  /\ store' = store (+) BagOfTexts(done)
                  /\ inserts' = inserts (+) BagOfRecords(done)
                  /\ End("fatal")
                  /\ logged' = logged + 1
                  /\ UNCHANGED <<loaded_count, loopEntered>>
    /\ UNCHANGED <<diskVars, rag, restarts, populatedAtStart, remaining, passStarted, failed_count,
                   insertFailures, decodeFailures, engineCalls, fallbackCalls, streamState, delivered, sink,
                   full_response, result, errorMsgs, queryFailed, failedBefore, interrupted>>

\* __main__: input() returns a question
CommonAsk ==
    /\ prog = "common" /\ pc = "loop"
    /\ pc' = "q_call"
    /\ ResetQuery
    /\ failedBefore' = (failedBefore \/ queryFailed)
    /\ UNCHANGED <<diskVars, mainVars, store, restarts, populatedAtStart, passVars, interrupted,
                   exitPath>>

\* __main__: input() returns exit / quit
CommonQuit ==
    /\ prog = "common" /\ pc = "loop"
    /\ End("quit")
    /\ UNCHANGED <<diskVars, mainVars, store, restarts, populatedAtStart, passVars, queryVars,
                   interrupted>>

\* KeyboardInterrupt anywhere inside the try block of __main__.  When it
\* arrives inside from_documents a prefix of the batch may have been stored.
CommonInterrupt ==
    /\ prog = "common" /\ pc \in {"start", "build", "loop", "q_call", "q_stream"}
    /\ interrupted' = TRUE
    /\ End("interrupt")
    /\ IF pc = "build"
       THEN \E done \in SUBSET Readable(docsDir) :
              /\ store' = store (+) BagOfTexts(done)
              /\ inserts' = inserts (+) BagOfRecords(done)
              /\ insertCalls' = insertCalls + (IF done # {} THEN 1 ELSE 0)
       ELSE UNCHANGED <<store, inserts, insertCalls>>
    /\ UNCHANGED <<diskVars, mainVars, restarts, populatedAtStart, remaining, passStarted, loaded_count,
                   failed_count, insertFailures, decodeFailures, queryVars>>

\* query_rag, except branch: the message is printed by query_rag and, being
\* its return value, once more by print("Bot:", query_rag(...)) in __main__
CommonFail ==
    /\ logged' = logged + 1
    /\ sink' = sink \o <<"Bot:", ERROR_MSG, "Bot:", ERROR_MSG>>
    /\ errorMsgs' = errorMsgs + 2
    /\ result' = ERROR_MSG
    /\ queryFailed' = TRUE
    /\ pc' = "loop"

\* query_rag: query_engine.query(prompt) and the dispatch on the response
CommonQueryCall ==
    /\ prog = "common" /\ pc = "q_call"
    /\ engineCalls' = engineCalls + 1
    /\ \/ /\ sink' = Append(sink, "Bot: ")      \* response_gen: stream_response starts
          /\ pc' = "q_stream"
          /\ streamState' = "open"
          /\ UNCHANGED <<result, errorMsgs, logged, queryFailed>>
       \/ \E text \in Answers :                 \* a complete response
            /\ sink' = sink \o <<"Bot:", text, "Bot:", text>>
            /\ result' = text
            /\ pc' = "loop"
            /\ UNCHANGED <<streamState, errorMsgs, logged, queryFailed>>
       \/ /\ CommonFail                         \* the engine raised
          /\ UNCHANGED streamState
    /\ UNCHANGED <<diskVars, mainVars, store, restarts, populatedAtStart, passVars, fallbackCalls,
                   delivered, full_response, failedBefore, interrupted, exitPath>>

\* stream_response: one iteration of the for loop (the print of the token is
\* commented out in the source)
CommonStreamToken ==
    /\ prog = "common" /\ pc = "q_stream"
    /\ Len(delivered) < MaxChunks
    /\ \E token \in Chunks :
         /\ delivered' = Append(delivered, token)
         /\ full_response' = full_response \o token
    /\ UNCHANGED <<diskVars, mainVars, pc, store, restarts, populatedAtStart, passVars, engineCalls,
                   fallbackCalls, streamState, sink, result, errorMsgs, logged, queryFailed, failedBefore,
                   interrupted, exitPath>>

\* stream_response: the generator is exhausted; print(), return full_response,
\* which __main__ prints
CommonStreamEnd ==
    /\ prog = "common" /\ pc = "q_stream"
    /\ sink' = sink \o <<"\n", "Bot:", full_response>>
    /\ result' = full_response
    /\ streamState' = "ended"
    /\ pc' = "loop"
    /\ UNCHANGED <<diskVars, mainVars, store, restarts, populatedAtStart, passVars, engineCalls,
                   fallbackCalls, delivered, full_response, errorMsgs, logged, queryFailed,
                   failedBefore, interrupted, exitPath>>

\* stream_response: the generator raises; the exception reaches the except
\* branch of query_rag
CommonStreamRaise ==
    /\ prog = "common" /\ pc = "q_stream"
    /\ CommonFail
    /\ streamState' = "raised"
    /\ UNCHANGED <<diskVars, mainVars, store, restarts, populatedAtStart, passVars, engineCalls,
                   fallbackCalls, delivered, full_response, failedBefore, interrupted,
                   exitPath>>

InitCommon == InitOf("common")

NextCommon ==
    \/ CommonStart
    \/ CommonBuild
    \/ CommonAsk
    \/ CommonQuit
    \/ CommonInterrupt
    \/ CommonQueryCall
    \/ CommonStreamToken
    \/ CommonStreamEnd
    \/ CommonStreamRaise
    \/ Restart

SpecCommon == InitCommon /\ [][NextCommon]_vars

----------------------------------------------------------------------------
(* lightrag.py *)

\* the handler of __main__: except Exception -> logger.error("Fatal error")
BasicFatal ==
    /\ logged' = logged + 1
    /\ End("fatal")

\* __main__: rag = asyncio.run(initialize_rag())
BasicInit ==
    /\ prog = "basic" /\ pc = "start"
    /\ \/ /\ rag' = "LightRAG"
          /\ pc' = "listdir"
          /\ UNCHANGED <<logged, exitPath>>
       \/ /\ logged' = logged + 1               \* initialize_rag raised
          /\ End("init")
          /\ UNCHANGED rag
    /\ UNCHANGED <<diskVars, loopEntered, store, restarts, populatedAtStart, passVars, engineCalls,
                   fallbackCalls, streamState, delivered, sink, full_response, result, errorMsgs,
                   queryFailed, failedBefore, interrupted>>

\* load_docs_from_folder: os.listdir(folder_path), which raises
\* FileNotFoundError when the directory does not exist
BasicListdir ==
    /\ prog = "basic" /\ pc = "listdir"
    /\ passStarted' = TRUE
    /\ IF docsDir.exists
       THEN /\ remaining' = docsDir.entries
            /\ pc' = "ingest"
            /\ UNCHANGED <<logged, exitPath>>
       ELSE /\ BasicFatal
            /\ UNCHANGED remaining
    /\ UNCHANGED <<diskVars, mainVars, store, restarts, populatedAtStart, loaded_count, failed_count,
                   insertCalls, inserts, insertFailures, decodeFailures, engineCalls,
                   fallbackCalls, streamState, delivered, sink, full_response, result, errorMsgs,
                   queryFailed, failedBefore, interrupted>>

\* load_docs_from_folder: one iteration of the for loop; any exception leaves
\* the function and reaches the handler of __main__
BasicLoadFile ==
    /\ prog = "basic" /\ pc = "ingest"
    /\ \E f \in remaining :
         /\ remaining' = remaining \ {f}
         /\ IF ~f.isfile
            THEN UNCHANGED <<pc, store, insertCalls, inserts, insertFailures, decodeFailures,
                             logged, exitPath>>
            ELSE IF DecodeFails(f.bytes)
            THEN /\ decodeFailures' = decodeFailures \cup {f.name}
                 /\ BasicFatal
                 /\ UNCHANGED <<store, insertCalls, inserts, insertFailures>>
            ELSE /\ insertCalls' = insertCalls + 1
                 /\ \E raised \in BOOLEAN :
                      IF raised
                      THEN /\ insertFailures' = insertFailures \cup {f.name}
                           /\ BasicFatal
                           /\ UNCHANGED <<store, inserts>>
                      ELSE /\ store' = store (+) SetToBag({ReadText(f)})
                           /\ inserts' = inserts (+) SetToBag({<<f.name, ReadText(f)>>})
                           /\ UNCHANGED <<pc, insertFailures, logged, exitPath>>
                 /\ UNCHANGED decodeFailures
    /\ UNCHANGED <<diskVars, mainVars, restarts, populatedAtStart, passStarted, loaded_count,
                   failed_count, engineCalls, fallbackCalls, streamState, delivered, sink, full_response,
                   result, errorMsgs, queryFailed, failedBefore, interrupted>>

\* load_docs_from_folder returns; __main__ enters its loop
BasicLoadDone ==
    /\ prog = "basic" /\ pc = "ingest"
    /\ remaining = {}
    /\ pc' = "loop"
    /\ loopEntered' = TRUE
    /\ UNCHANGED <<diskVars, rag, store, restarts, populatedAtStart, passVars, queryVars,
                   interrupted, exitPath>>

\* __main__: input() returns a question
BasicAsk ==
    /\ prog = "basic" /\ pc = "loop"
    /\ pc' = "q_call"
    /\ ResetQuery
    /\ failedBefore' = (failedBefore \/ queryFailed)
    /\ UNCHANGED <<diskVars, mainVars, store, restarts, populatedAtStart, passVars, interrupted,
                   exitPath>>

\* __main__: input() returns exit / quit
BasicQuit ==
    /\ prog = "basic" /\ pc = "loop"
    /\ End("quit")
    /\ UNCHANGED <<diskVars, mainVars, store, restarts, populatedAtStart, passVars, queryVars,
                   interrupted>>

\* KeyboardInterrupt anywhere inside the try block of __main__
BasicInterrupt ==
    /\ prog = "basic" /\ pc \in {"start", "listdir", "ingest", "loop", "q_call", "q_stream"}
    /\ interrupted' = TRUE
    /\ End("interrupt")
    /\ UNCHANGED <<diskVars, mainVars, store, restarts, populatedAtStart, passVars, queryVars>>

\* query_rag: rag.query(query, QueryParam(mode="global", stream=True))
BasicQueryCall ==
    /\ prog = "basic" /\ pc = "q_call"
    /\ engineCalls' = engineCalls + 1
    /\ \/ /\ pc' = "q_stream"                   \* asyncio.run(print_stream(resp))
          /\ streamState' = "open"
          /\ UNCHANGED <<sink, logged, queryFailed, exitPath>>
       \/ \E text \in Answers :                 \* print(resp)
            /\ sink' = Append(sink, text)
            /\ pc' = "loop"
            /\ UNCHANGED <<streamState, logged, queryFailed, exitPath>>
       \/ /\ BasicFatal                         \* rag.query raised
          /\ queryFailed' = TRUE
          /\ UNCHANGED <<streamState, sink>>
    /\ UNCHANGED <<diskVars, mainVars, store, restarts, populatedAtStart, passVars, fallbackCalls,
                   delivered, full_response, result, errorMsgs, failedBefore, interrupted>>

\* print_stream: the stream yields its next chunk, which is printed
BasicStreamChunk ==
    /\ prog = "basic" /\ pc = "q_stream"
    /\ Len(delivered) < MaxChunks
    /\ \E c \in Chunks :
         /\ delivered' = Append(delivered, c)
         /\ sink' = Append(sink, c)
    /\ UNCHANGED <<diskVars, mainVars, pc, store, restarts, populatedAtStart, passVars, engineCalls,
                   fallbackCalls, streamState, full_response, result, errorMsgs, logged, queryFailed,
                   failedBefore, interrupted, exitPath>>

\* print_stream: the stream is exhausted
BasicStreamEnd ==
    /\ prog = "basic" /\ pc = "q_stream"
    /\ streamState' = "ended"
    /\ pc' = "loop"
    /\ UNCHANGED <<diskVars, mainVars, store, restarts, populatedAtStart, passVars, engineCalls,
                   fallbackCalls, delivered, sink, full_response, result, errorMsgs, logged,
                   queryFailed, failedBefore, interrupted, exitPath>>

\* print_stream: the stream raises; nothing catches it before __main__
BasicStreamRaise ==
    /\ prog = "basic" /\ pc = "q_stream"
    /\ BasicFatal
    /\ streamState' = "raised"
    /\ queryFailed' = TRUE
    /\ UNCHANGED <<diskVars, mainVars, store, restarts, populatedAtStart, passVars, engineCalls,
                   fallbackCalls, delivered, sink, full_response, result, errorMsgs,
                   failedBefore, interrupted>>

InitBasic == InitOf("basic")

NextBasic ==
    \/ BasicInit
    \/ BasicListdir
    \/ BasicLoadFile
    \/ BasicLoadDone
    \/ BasicAsk
    \/ BasicQuit
    \/ BasicInterrupt
    \/ BasicQueryCall
    \/ BasicStreamChunk
    \/ BasicStreamEnd
    \/ BasicStreamRaise
    \/ Restart

SpecBasic == InitBasic /\ [][NextBasic]_vars

----------------------------------------------------------------------------
(* The repository: any of its three front ends *)

Init == InitDemo \/ InitCommon \/ InitBasic

Next == NextDemo \/ NextCommon \/ NextBasic

Spec == Init /\ [][Next]_vars

----------------------------------------------------------------------------
(* The claims *)

\* the regular files of the directory
RegularFiles == {f \in docsDir.entries : f.isfile}

\* the regular files whose extension, case ignored, is on the allow-list
Candidates ==
    {f \in RegularFiles : Lower(f.ext) \in {".txt", ".md", ".doc", ".docx", ".pdf"}}

\* the candidates that decode as UTF-8 to something other than whitespace
Loadable == {f \in Candidates : ~DecodeFails(f.bytes) /\ ~IsBlank(Translate(f.bytes))}

NamesOf(S) == {f.name : f \in S}

\* the loading pass of this process is over and was not cut short by an interrupt
PassOver == passStarted /\ pc \notin {"listdir", "build", "ingest"} /\ ~interrupted

\* the current query is over and was not cut short by an interrupt
QueryOver == pc \in {"loop", "ended"} /\ ~interrupted

IsChunk(x) == x \in Chunks

\* C1: a process started against a populated store performs no document
\* insertion at all (rag.insert / from_documents is never called).
C1_IdempotentReload == populatedAtStart => insertCalls = 0

\* C2: when the stream of a query raises after zero or more chunks, the
\* query is re-issued exactly once with streaming disabled and what that
\* call gives is the last thing delivered (its text, or the one error
\* message when it fails too), never the chunks of the failed stream.
C2_FallbackOnStreamFailure ==
    (streamState = "raised" /\ QueryOver) =>
        /\ fallbackCalls = 1
        /\ sink # <<>>
        /\ sink[Len(sink)] \in Answers \cup {SORRY}

\* C3: a decode failure on one file never aborts the pass: once the pass is
\* over, and no insert raised during it, every supported, non-empty,
\* decodable regular file of the directory has been inserted exactly once,
\* whatever the order of enumeration.
C3_PerFileIsolation ==
    (PassOver /\ insertFailures = {}) =>
        \A f \in Loadable : CopiesIn(<<f.name, Translate(f.bytes)>>, inserts) = 1

\* C4: while a stream is consumed every chunk it has yielded has been
\* forwarded to the output, in order, and when the stream ends without
\* failing the text returned is the concatenation of its chunks.
C4_StreamingConcatenation ==
    /\ streamState \in {"open", "ended"} => SelectSeq(sink, IsChunk) = delivered
    /\ streamState = "ended" => result = Concat(delivered)

\* C5: with a missing or empty document directory start-up loads nothing,
\* inserts nothing, leaves the store empty and does not end the process
\* with an error: it goes on to the session loop, where a failing query
\* does not end it either.
C5_EmptyCorpusTolerance ==
    (~docsDir.exists \/ docsDir.entries = {}) =>
        /\ loaded_count = 0
        /\ inserts = EmptyBag
        /\ store = EmptyBag
        /\ exitPath # "fatal"

\* C6: one user query calls the query engine at most twice, one streaming
\* attempt and at most one non-streaming fallback; when the fallback fails
\* too, exactly one error message is printed and the query is over.
C6_BoundedFallback ==
    /\ engineCalls <= 2
    /\ fallbackCalls <= 1
    /\ engineCalls <= fallbackCalls + 1
    /\ (fallbackCalls >= 1 /\ queryFailed) =>
           /\ errorMsgs = 1
           /\ engineCalls = 2
           /\ pc \in {"loop", "ended"}

C6_Witness ==
    pc = "loop" /\ fallbackCalls = 1 /\ queryFailed /\ errorMsgs = 1 /\ engineCalls = 2

\* C7: a failed query shows an error text and never ends the session: the
\* process does not leave through its fatal-error handler.
C7_QueryFailureContained ==
    queryFailed => (errorMsgs + logged >= 1 /\ exitPath # "fatal")

C9_OnlyInitFailureIsFatal ==
    /\ [](rag = "None" =>
            /\ ~passStarted /\ ~loopEntered
            /\ insertCalls = 0 /\ engineCalls = 0)
    /\ [](exitPath # "fatal")
    /\ [][(failed_count' > failed_count \/ (~queryFailed /\ queryFailed')) => pc' # "ended"]_vars

C9_Witness == pc = "ended" /\ exitPath = "init" /\ rag = "None" /\ ~loopEntered

\* C10: an interrupt during start-up ingestion or during a query ends the
\* process through its clean-exit path, and every document inserted before
\* it is in the store.
C10_CleanCancellation ==
    (interrupted /\ passStarted) =>
        /\ exitPath = "interrupt"
        /\ \A rec \in BagToSet(inserts) : BagIn(rec[2], store)

====
